---- MODULE Spec2Model ----
(***************************************************************************)
(* tools/parse_convos.py: extraction of inlined file contents from         *)
(* conversation transcripts (convo-*.txt) into an output tree and a        *)
(* report.  Text is modelled as sequences of one-character strings, so     *)
(* that the regular expressions, normalize_path, rstrip and lstrip are     *)
(* computed character by character as Python computes them.               *)
(***************************************************************************)
EXTENDS Integers, Sequences, FiniteSets, TLC

NL == "\n"
BS == "\\"
QUOTE == "\""
SLASH == "/"
\* The backtick character; the TLA+ lexer accepts no backtick inside a string, so
\* the model writes it as a tilde, a character no line of the model uses otherwise.
BT == "~"

\* Python's str.isspace / regex \s on the characters used here.
IsSpace(c) == c \in {" ", "\t", "\n", "\r", "\f"}

Min(S) == CHOOSE x \in S : \A y \in S : x <= y
Max(S) == CHOOSE x \in S : \A y \in S : x >= y

\* ''.join(buf)
RECURSIVE join(_)
join(buf) == IF buf = <<>> THEN <<>> ELSE Head(buf) \o join(Tail(buf))

\* s.startswith(lit), generalised to a match of lit at position pos (1-based).
MatchLit(s, pos, lit) ==
    /\ pos >= 1
    /\ pos + Len(lit) - 1 <= Len(s)
    /\ \A k \in 1..Len(lit) : s[pos + k - 1] = lit[k]

startswith(s, lit) == MatchLit(s, 1, lit)

\* First position >= pos of s that is not whitespace (Len(s)+1 if none): where a
\* greedy \s* starting at pos ends.
SkipSpace(s, pos) ==
    Min({k \in pos..(Len(s) + 1) : k = Len(s) + 1 \/ ~IsSpace(s[k])})

\* str.strip(): leading and trailing whitespace removed.
strip(s) ==
    LET keep == {k \in 1..Len(s) : ~IsSpace(s[k])}
    IN  IF keep = {} THEN <<>> ELSE SubSeq(s, Min(keep), Max(keep))

\* str.rstrip('\n'): trailing newline characters removed.
rstrip_nl(s) ==
    LET keep == {k \in 1..Len(s) : s[k] # NL}
    IN  IF keep = {} THEN <<>> ELSE SubSeq(s, 1, Max(keep))

\* str.lstrip(chars): leading characters of the set chars removed.
lstrip(s, chars) ==
    LET keep == {k \in 1..Len(s) : s[k] \notin chars}
    IN  IF keep = {} THEN <<>> ELSE SubSeq(s, Min(keep), Len(s))

\* str.replace('\\', '/')
replace_backslash(s) == [k \in 1..Len(s) |-> IF s[k] = BS THEN SLASH ELSE s[k]]

DASH3 == <<"-", "-", "-">>
FENCE == <<BT, BT, BT>>
KW_BEGIN == <<"B", "E", "G", "I", "N">>
KW_END == <<"E", "N", "D">>
KW_FILE == <<"F", "I", "L", "E">>
KW_NAME == <<"n", "a", "m", "e", "=">>
COLON == <<":">>

\* Positions right after an optional (?:\s*FILE)? that starts at position q.
AfterOptFile(s, q) ==
    {q} \cup (IF MatchLit(s, SkipSpace(s, q), KW_FILE)
              THEN {SkipSpace(s, q) + 4} ELSE {})

\* The tail \s*--- matches at position p.
DashTail(s, p) == MatchLit(s, SkipSpace(s, p), DASH3)

\* All <<g, e>> such that the group (.+?) can be s[g..e] when the part of the
\* pattern before the group's preceding \s* ends right before position p:
\* \s* takes p..g-1, the group takes g..e (no newline in it), \s*--- follows.
GroupSpans(s, p) ==
    {ge \in (p..SkipSpace(s, p)) \X (p..Len(s)) :
        /\ ge[1] <= ge[2]
        /\ \A k \in ge[1]..ge[2] : s[k] # NL
        /\ DashTail(s, ge[2] + 1)}

\* Positions of the character after the ':' of ^---\s*BEGIN(?:\s*FILE)?:
BeginHeads(s) ==
    IF MatchLit(s, 1, DASH3) /\ MatchLit(s, SkipSpace(s, 4), KW_BEGIN)
    THEN {c + 1 : c \in {c \in AfterOptFile(s, SkipSpace(s, 4) + 5) : MatchLit(s, c, COLON)}}
    ELSE {}

\* Positions after ^---\s*END(?:\s*FILE)?:?
EndHeads(s) ==
    IF MatchLit(s, 1, DASH3) /\ MatchLit(s, SkipSpace(s, 4), KW_END)
    THEN UNION {{c} \cup (IF MatchLit(s, c, COLON) THEN {c + 1} ELSE {}) :
                  c \in AfterOptFile(s, SkipSpace(s, 4) + 3)}
    ELSE {}

\* FILE_BEGIN_RE = ^---\s*BEGIN(?:\s*FILE)?:\s*(.+?)\s*---
FILE_BEGIN_RE(s) == \E p \in BeginHeads(s) : GroupSpans(s, p) # {}

\* m.group(1) of FILE_BEGIN_RE: the backtracking order is greedy \s* (latest
\* group start first), then lazy .+? (earliest group end first).
FILE_BEGIN_group(s) ==
    LET G == UNION {GroupSpans(s, p) : p \in BeginHeads(s)}
        g == Max({ge[1] : ge \in G})
        e == Min({ge[2] : ge \in {x \in G : x[1] = g}})
    IN  SubSeq(s, g, e)

\* FILE_END_RE = ^---\s*END(?:\s*FILE)?:?\s*(.+?)\s*---   (only .match is used)
FILE_END_RE(s) == \E p \in EndHeads(s) : GroupSpans(s, p) # {}

\* The greedy group (.+) starting at position g: up to the newline or the end.
DotRun(s, g) ==
    SubSeq(s, g, Min({k \in g..(Len(s) + 1) : k = Len(s) + 1 \/ s[k] = NL}) - 1)

\* CODEFENCE_NAME_RE = ^```\s*name=(.+)
CODEFENCE_NAME_RE(s) ==
    /\ MatchLit(s, 1, FENCE)
    /\ MatchLit(s, SkipSpace(s, 4), KW_NAME)
    /\ DotRun(s, SkipSpace(s, 4) + 5) # <<>>

CODEFENCE_NAME_group(s) == DotRun(s, SkipSpace(s, 4) + 5)

\* INLINE_NAME_RE = ^name=(.+)
INLINE_NAME_RE(s) == MatchLit(s, 1, KW_NAME) /\ DotRun(s, 6) # <<>>

INLINE_NAME_group(s) == DotRun(s, 6)

\* normalize_path(p)
normalize_path(p) ==
    LET q == replace_backslash(strip(p))
    IN  IF Len(q) >= 1 /\ q[1] = QUOTE /\ q[Len(q)] = QUOTE
        THEN SubSeq(q, 2, Len(q) - 1)
        ELSE q

\* Mutant: the newline is appended without the rstrip.
make_content_no_rstrip(buf) == join(buf) \o <<NL>>

\* content = ''.join(buf).rstrip('\n') + '\n'
make_content(buf) == rstrip_nl(join(buf)) \o <<NL>>


\* f.readlines(): the text split after every newline; only the last line can
\* lack its newline.
RECURSIVE readlines(_)
readlines(t) ==
    IF t = <<>> THEN <<>>
    ELSE LET nls == {k \in 1..Len(t) : t[k] = NL}
             e == IF nls = {} THEN Len(t) ELSE Min(nls)
         IN  <<SubSeq(t, 1, e)>> \o readlines(SubSeq(t, e + 1, Len(t)))

(***************************************************************************)
(* State.                                                                  *)
(***************************************************************************)
VARIABLES
    convo_paths,       \* main: the sorted transcripts found, each given by its text
    pc,                \* main: position in the program
    idx,               \* main: index of the transcript being parsed (from 1)
    lines,             \* extract_from_file: lines of the current transcript
    i,                 \* extract_from_file: cursor, 0-based as in the source
    files_map,         \* OrderedDict path -> (convo_index, content), in insertion order
    unknowns_counter,  \* main: passed through extract_from_file unchanged
    emitted,           \* history: every block assigned to files_map, in order
    dirs,              \* directories created on disk (resolved locations)
    disk,              \* files written on disk: resolved location -> content
    written,           \* main: list of (safe_path, conv_idx, len(content))
    report,            \* the report file: whether written, and its entries
    exit_code,         \* process outcome: -1 while running
    prev               \* history: the results of an earlier run over the same input

vars == <<convo_paths, pc, idx, lines, i, files_map, unknowns_counter, emitted,
          dirs, disk, written, report, exit_code, prev>>

n == Len(lines)
\* lines[k] with the source's 0-based index
Line(k) == lines[k + 1]
\* lines[a:b]
Slice(a, b) == [k \in 1..(b - a) |-> Line(a + k - 1)]

\* --output-dir
OUTPUT_DIR == <<"o", "u", "t">>

\* Mutant: a present key keeps its first value (setdefault).
SetItem_keep_first(fm, fname, convo_index, content) ==
    IF \E k \in 1..Len(fm) : fm[k].path = fname THEN fm
    ELSE Append(fm, [path |-> fname, idx |-> convo_index, content |-> content])

\* Mutant: a present key is replaced only by a block of a later transcript.
SetItem_later_transcript(fm, fname, convo_index, content) ==
    LET rec == [path |-> fname, idx |-> convo_index, content |-> content]
        at == {k \in 1..Len(fm) : fm[k].path = fname}
    IN  IF at = {} THEN Append(fm, rec)
        ELSE IF fm[CHOOSE k \in at : TRUE].idx < convo_index
             THEN [fm EXCEPT ![CHOOSE k \in at : TRUE] = rec]
             ELSE fm

\* Mutant: a present key is removed and the new value goes to the end.
SetItem_move_to_end(fm, fname, convo_index, content) ==
    LET rest == {k \in 1..Len(fm) : fm[k].path # fname}
        kth(m) == CHOOSE k \in rest : Cardinality({j \in rest : j < k}) = m - 1
    IN  [m \in 1..Cardinality(rest) |-> fm[kth(m)]]
            \o <<[path |-> fname, idx |-> convo_index, content |-> content]>>

\* files_map[fname] = (convo_index, content) on an OrderedDict: a present key
\* keeps its position and gets the new value, a new key goes to the end.
SetItem(fm, fname, convo_index, content) ==
    LET rec == [path |-> fname, idx |-> convo_index, content |-> content]
        at == {k \in 1..Len(fm) : fm[k].path = fname}
    IN  IF at = {} THEN Append(fm, rec)
        ELSE [fm EXCEPT ![CHOOSE k \in at : TRUE] = rec]

Keys(fm) == {fm[k].path : k \in 1..Len(fm)}
Get(fm, key) == fm[CHOOSE k \in 1..Len(fm) : fm[k].path = key]

\* Mutant: only a bare fence line counts as a fence delimiter.
IsFence_exact(l) == l = FENCE \o <<NL>>

IsFence(l) == startswith(l, FENCE)
IsBlank(l) == strip(l) = <<>>
\* Mutant: a begin marker does not end an unfenced body.
EndsPlainBody_no_begin(l) == IsBlank(l) \/ INLINE_NAME_RE(l)
EndsPlainBody(l) == IsBlank(l) \/ INLINE_NAME_RE(l) \/ FILE_BEGIN_RE(l)

\* The conditions that end the inner while loops, by the line they stop at.
StopsAt(kind, l) ==
    CASE kind = "end" -> FILE_END_RE(l)
      [] kind = "fence" -> IsFence(l)
      [] kind = "nonblank" -> ~IsBlank(l)
      [] kind = "plain" -> EndsPlainBody(l)

\* while k < n and not <stop at lines[k]>: k += 1   -- the value of k after the loop
LoopEnd(from, kind) ==
    Min({k \in from..n : k = n \/ StopsAt(kind, Line(k))})

\* The block registered by one iteration of the scanner, as a history record:
\* rec is the recognizer, start the line of the block's first line, from..to-1
\* the lines of buf, stop the cursor after the iteration.
Block(rec, fname, start, from, to, stop) ==
    [rec |-> rec, path |-> fname, idx |-> idx, content |-> make_content(Slice(from, to)),
     start |-> start, from |-> from, to |-> to, stop |-> stop]

\* Mutant: after a block the scan resumes at the line after its start line.
Register_rescan(b) ==
    /\ files_map' = SetItem(files_map, b.path, b.idx, b.content)
    /\ emitted' = Append(emitted, b)
    /\ i' = b.start + 1

\* (A value bound by \E over a one-element set is computed once per step.)
Register(b) ==
    \E r \in {b} :
        /\ files_map' = SetItem(files_map, r.path, r.idx, r.content)
        /\ emitted' = Append(emitted, r)
        /\ i' = r.stop

\* Mutant: the cursor moves past the terminator without the test k < n.
SkipIf_always(k, kind) == k + 1

\* if k < n and <terminator at lines[k]>: k += 1
SkipIf(k, kind) == IF k < n /\ StopsAt(kind, Line(k)) THEN k + 1 ELSE k


(***************************************************************************)
(* extract_from_file: one action per way an iteration of the while loop    *)
(* goes.  The recognizers are tried in the order of the source; each       *)
(* guard holds the negation of the earlier ones.                           *)
(***************************************************************************)
AcceptsExplicit(k) == FILE_BEGIN_RE(Line(k))
\* Mutant: a fence opener whose next line is a name= line is left to the
\* embedded-name recognizer.
AcceptsNamedFence_after_embedded(k) ==
    /\ ~AcceptsExplicit(k) /\ CODEFENCE_NAME_RE(Line(k))
    /\ ~(k + 1 < n /\ INLINE_NAME_RE(Line(k + 1)))
AcceptsNamedFence(k) == ~AcceptsExplicit(k) /\ CODEFENCE_NAME_RE(Line(k))
AcceptsInline(k) ==
    ~AcceptsExplicit(k) /\ ~CODEFENCE_NAME_RE(Line(k)) /\ INLINE_NAME_RE(Line(k))
\* found_name is set and truthy (a non-empty string)
AcceptsEmbedded(k) ==
    /\ ~AcceptsExplicit(k) /\ ~CODEFENCE_NAME_RE(Line(k)) /\ ~INLINE_NAME_RE(Line(k))
    /\ IsFence(Line(k))
    /\ k + 1 < n
    /\ INLINE_NAME_RE(Line(k + 1))
    /\ normalize_path(INLINE_NAME_group(Line(k + 1))) # <<>>

Scanning == pc = "scan" /\ i < n

rest_of_scan == <<convo_paths, pc, idx, lines, unknowns_counter, dirs, disk, written,
                  report, exit_code, prev>>

\* Mutant: only an end marker naming the begin marker's path closes the block.
ExplicitMarker_same_path ==
    /\ Scanning
    /\ AcceptsExplicit(i)
    /\ LET fname == normalize_path(FILE_BEGIN_group(Line(i)))
           EndNamesPath(l) ==
               \E p \in EndHeads(l) : \E ge \in GroupSpans(l, p) :
                   normalize_path(SubSeq(l, ge[1], ge[2])) = fname
           e == Min({k \in (i + 1)..n : k = n \/ EndNamesPath(Line(k))})
       IN  Register(Block("explicit", fname, i, i + 1, e, IF e < n THEN e + 1 ELSE e))
    /\ UNCHANGED rest_of_scan

\* Mutant: a block without an end marker is dropped.
ExplicitMarker_strict ==
    /\ Scanning
    /\ AcceptsExplicit(i)
    /\ LET e == LoopEnd(i + 1, "end")
       IN  IF e < n
           THEN Register(Block("explicit", normalize_path(FILE_BEGIN_group(Line(i))),
                               i, i + 1, e, e + 1))
           ELSE i' = n /\ UNCHANGED <<files_map, emitted>>
    /\ UNCHANGED rest_of_scan

\* lines 53-66
ExplicitMarker ==
    /\ Scanning
    /\ AcceptsExplicit(i)
    /\ \E g \in {FILE_BEGIN_group(Line(i))}, e \in {LoopEnd(i + 1, "end")} :
           Register(Block("explicit", normalize_path(g), i, i + 1, e, SkipIf(e, "end")))
    /\ UNCHANGED rest_of_scan

\* lines 69-82
NamedFence ==
    /\ Scanning
    /\ AcceptsNamedFence(i)
    /\ \E g \in {CODEFENCE_NAME_group(Line(i))}, e \in {LoopEnd(i + 1, "fence")} :
           Register(Block("fence", normalize_path(g), i, i + 1, e, SkipIf(e, "fence")))
    /\ UNCHANGED rest_of_scan

\* Mutant: the blank lines after the name= line are not skipped.
InlineName_no_skip ==
    /\ Scanning
    /\ AcceptsInline(i)
    /\ LET fname == normalize_path(INLINE_NAME_group(Line(i)))
           j == i + 1
       IN  IF j < n /\ IsFence(Line(j))
           THEN LET e == LoopEnd(j + 1, "fence")
                IN  Register(Block("inline", fname, i, j + 1, e, SkipIf(e, "fence")))
           ELSE LET e == LoopEnd(j, "plain")
                IN  Register(Block("inline", fname, i, j, e, e))
    /\ UNCHANGED rest_of_scan

\* lines 85-108
InlineName ==
    /\ Scanning
    /\ AcceptsInline(i)
    /\ \E g \in {INLINE_NAME_group(Line(i))}, j \in {LoopEnd(i + 1, "nonblank")} :
           IF j < n /\ IsFence(Line(j))
           THEN \E e \in {LoopEnd(j + 1, "fence")} :
                    Register(Block("inline", normalize_path(g), i, j + 1, e, SkipIf(e, "fence")))
           ELSE \E e \in {LoopEnd(j, "plain")} :
                    Register(Block("inline", normalize_path(g), i, j, e, e))
    /\ UNCHANGED rest_of_scan

\* lines 111-130
EmbeddedName ==
    /\ Scanning
    /\ AcceptsEmbedded(i)
    /\ \E g \in {INLINE_NAME_group(Line(i + 1))}, e \in {LoopEnd(i + 2, "fence")} :
           Register(Block("embedded", normalize_path(g), i, i + 2, e, SkipIf(e, "fence")))
    /\ UNCHANGED rest_of_scan

\* Mutant: after a fence that is not accepted, the cursor also passes the line
\* that was looked ahead at.
Reject_lookahead ==
    /\ Scanning
    /\ ~AcceptsExplicit(i) /\ ~AcceptsNamedFence(i) /\ ~AcceptsInline(i) /\ ~AcceptsEmbedded(i)
    /\ i' = IF IsFence(Line(i)) /\ i + 1 < n THEN i + 2 ELSE i + 1
    /\ UNCHANGED <<files_map, emitted>>
    /\ UNCHANGED rest_of_scan

\* line 132
Reject ==
    /\ Scanning
    /\ ~AcceptsExplicit(i) /\ ~AcceptsNamedFence(i) /\ ~AcceptsInline(i) /\ ~AcceptsEmbedded(i)
    /\ i' = i + 1
    /\ UNCHANGED <<files_map, emitted>>
    /\ UNCHANGED rest_of_scan

(***************************************************************************)
(* Paths on disk (POSIX).                                                  *)
(***************************************************************************)
\* os.path.join(a, b)
path_join(a, b) ==
    IF startswith(b, <<SLASH>>) THEN b
    ELSE IF a = <<>> \/ a[Len(a)] = SLASH THEN a \o b
    ELSE a \o <<SLASH>> \o b

\* p.split('/')
RECURSIVE split(_)
split(p) ==
    LET at == {k \in 1..Len(p) : p[k] = SLASH}
    IN  IF at = {} THEN <<p>>
        ELSE <<SubSeq(p, 1, Min(at) - 1)>> \o split(SubSeq(p, Min(at) + 1, Len(p)))

\* The location a relative path names, as the system resolves it from the
\* working directory: empty and '.' segments dropped, '..' leaves a directory.
RECURSIVE walk(_, _)
walk(at, segs) ==
    IF segs = <<>> THEN at
    ELSE LET h == Head(segs)
         IN  IF h = <<>> \/ h = <<".">> THEN walk(at, Tail(segs))
             ELSE IF h = <<".", ".">> /\ at # <<>> /\ at[Len(at)] # <<".", ".">>
                  THEN walk(SubSeq(at, 1, Len(at) - 1), Tail(segs))
             ELSE walk(Append(at, h), Tail(segs))

Resolve(p) == walk(<<>>, split(p))

IsPrefix(a, b) == Len(a) <= Len(b) /\ SubSeq(b, 1, Len(a)) = a
ProperPrefixes(loc) == {SubSeq(loc, 1, k) : k \in 1..(Len(loc) - 1)}

\* safe_path = path.lstrip(...): line 166 strips the leading characters '/' and
\* backslash (its string literal has lost one backslash of the escape in the
\* source file; the set of characters is read as these two).
safe_path(path) == lstrip(path, {SLASH, BS})
\* out_path = os.path.join(args.output_dir, safe_path)
out_path(path) == path_join(OUTPUT_DIR, safe_path(path))

(***************************************************************************)
(* main                                                                    *)
(***************************************************************************)
\* Mutant: the run goes on without transcripts.
NoTranscripts_continue ==
    /\ pc = "glob"
    /\ convo_paths = <<>>
    /\ pc' = "makedirs"
    /\ UNCHANGED <<prev, convo_paths, idx, lines, i, files_map, unknowns_counter, emitted,
                   dirs, disk, written, report, exit_code>>

\* lines 146-149: no transcript found
NoTranscripts ==
    /\ pc = "glob"
    /\ convo_paths = <<>>
    /\ pc' = "done"
    /\ exit_code' = 1
    /\ UNCHANGED <<prev, convo_paths, idx, lines, i, files_map, unknowns_counter, emitted,
                   dirs, disk, written, report>>

\* lines 146-151: transcripts found, the loop starts at index 1
FoundTranscripts ==
    /\ pc = "glob"
    /\ convo_paths # <<>>
    /\ pc' = "open"
    /\ idx' = 1
    /\ UNCHANGED <<prev, convo_paths, lines, i, files_map, unknowns_counter, emitted,
                   dirs, disk, written, report, exit_code>>

\* lines 45-49: the transcript is read
ReadTranscript ==
    /\ pc = "open"
    /\ lines' = readlines(convo_paths[idx])
    /\ i' = 0
    /\ pc' = "scan"
    /\ UNCHANGED <<prev, convo_paths, idx, files_map, unknowns_counter, emitted,
                   dirs, disk, written, report, exit_code>>

\* lines 50, 134, 151-153: the scan is over; next transcript, or on to writing
EndOfTranscript ==
    /\ pc = "scan"
    /\ ~(i < n)
    /\ unknowns_counter' = unknowns_counter
    /\ IF idx < Len(convo_paths)
       THEN idx' = idx + 1 /\ pc' = "open"
       ELSE idx' = idx /\ pc' = "makedirs"
    /\ UNCHANGED <<prev, convo_paths, lines, i, files_map, emitted,
                   dirs, disk, written, report, exit_code>>

\* lines 159-161
MakeDirs ==
    /\ pc = "makedirs"
    /\ dirs' = dirs \cup {Resolve(OUTPUT_DIR),
                          Resolve(path_join(OUTPUT_DIR, <<"u", "n", "k", "n", "o", "w", "n", "s">>))}
    /\ pc' = "write"
    /\ UNCHANGED <<prev, convo_paths, idx, lines, i, files_map, unknowns_counter, emitted,
                   disk, written, report, exit_code>>

\* The entry the for loop of line 164 is at.
NextEntry == files_map[Len(written) + 1]

\* makedirs or open raises: the location is a directory, or lies below a file.
WriteRaises(loc) ==
    \/ loc = <<>>
    \/ loc \in dirs
    \/ \E d \in ProperPrefixes(loc) : d \in DOMAIN disk

\* Mutant: the file is opened for appending.
WriteFile_append ==
    /\ pc = "write"
    /\ Len(written) < Len(files_map)
    /\ LET e == NextEntry
           loc == Resolve(out_path(e.path))
       IN  /\ ~WriteRaises(loc)
           /\ dirs' = dirs \cup ProperPrefixes(loc)
           /\ disk' = [l \in DOMAIN disk \cup {loc} |->
                          IF l # loc THEN disk[l]
                          ELSE IF loc \in DOMAIN disk THEN disk[loc] \o e.content
                          ELSE e.content]
           /\ written' = Append(written, [path |-> safe_path(e.path), idx |-> e.idx,
                                           size |-> Len(e.content)])
    /\ UNCHANGED <<prev, convo_paths, pc, idx, lines, i, files_map, unknowns_counter,
                   emitted, report, exit_code>>

\* lines 164-173: one iteration of the loop that writes the files
WriteFile ==
    /\ pc = "write"
    /\ Len(written) < Len(files_map)
    /\ \E e \in {NextEntry} : \E loc \in {Resolve(out_path(e.path))} :
           /\ ~WriteRaises(loc)
           /\ dirs' = dirs \cup ProperPrefixes(loc)
           /\ disk' = [l \in DOMAIN disk \cup {loc} |->
                          IF l = loc THEN e.content ELSE disk[l]]
           /\ written' = Append(written, [path |-> safe_path(e.path), idx |-> e.idx,
                                           size |-> Len(e.content)])
    /\ UNCHANGED <<prev, convo_paths, pc, idx, lines, i, files_map, unknowns_counter,
                   emitted, report, exit_code>>

\* lines 168-171: the exception is not caught, the process ends with a traceback
WriteFails ==
    /\ pc = "write"
    /\ Len(written) < Len(files_map)
    /\ \E loc \in {Resolve(out_path(NextEntry.path))} : WriteRaises(loc)
    /\ pc' = "done"
    /\ exit_code' = 1
    /\ UNCHANGED <<prev, convo_paths, idx, lines, i, files_map, unknowns_counter, emitted,
                   dirs, disk, written, report>>

\* lines 176-186
WriteReport ==
    /\ pc = "write"
    /\ Len(written) = Len(files_map)
    /\ report' = [exists |-> TRUE, entries |-> written]
    /\ pc' = "done"
    /\ exit_code' = 0
    /\ UNCHANGED <<prev, convo_paths, idx, lines, i, files_map, unknowns_counter, emitted,
                   dirs, disk, written>>

\* What a run leaves behind: its Registry, the files on disk, the list of
\* written files, the report and the outcome.
NoRun == [ran |-> FALSE, files_map |-> <<>>, disk |-> [l \in {} |-> <<>>],
          written |-> <<>>, report |-> [exists |-> FALSE, entries |-> <<>>],
          exit_code |-> -1]

\* The program is started a second time on the unchanged input directory: the
\* directories, the files and the report of the first run are still on disk,
\* the state of main (lines 143-144) starts afresh.
Rerun ==
    /\ pc = "done"
    /\ ~prev.ran
    /\ prev' = [ran |-> TRUE, files_map |-> files_map, disk |-> disk,
                written |-> written, report |-> report, exit_code |-> exit_code]
    /\ pc' = "glob"
    /\ idx' = 0
    /\ lines' = <<>>
    /\ i' = 0
    /\ files_map' = <<>>
    /\ unknowns_counter' = 0
    /\ emitted' = <<>>
    /\ written' = <<>>
    /\ exit_code' = -1
    /\ UNCHANGED <<convo_paths, dirs, disk, report>>

Next ==
    \/ NoTranscripts
    \/ FoundTranscripts
    \/ ReadTranscript
    \/ ExplicitMarker
    \/ NamedFence
    \/ InlineName
    \/ EmbeddedName
    \/ Reject
    \/ EndOfTranscript
    \/ MakeDirs
    \/ WriteFile
    \/ WriteFails
    \/ WriteReport


(***************************************************************************)
(* Inputs: the transcripts found in the input directory.                   *)
(***************************************************************************)
begin_marker(tok) ==
    DASH3 \o <<" ">> \o KW_BEGIN \o <<" ">> \o KW_FILE \o <<":", " ">> \o tok
          \o <<" ">> \o DASH3 \o <<NL>>
end_marker(tok) ==
    DASH3 \o <<" ">> \o KW_END \o <<" ">> \o KW_FILE \o <<":", " ">> \o tok
          \o <<" ">> \o DASH3 \o <<NL>>
fence_name(tok) == FENCE \o KW_NAME \o tok \o <<NL>>
inline_name(tok) == KW_NAME \o tok \o <<NL>>
bare_fence == FENCE \o <<NL>>
blank_line == <<NL>>
text_line(c) == <<c, NL>>

\* Texts made of exactly k lines of the pool.
Texts(pool, k) == {join(ls) : ls \in [1..k -> pool]}
\* The same file without its final newline.
Chop(t) == IF t # <<>> /\ t[Len(t)] = NL THEN SubSeq(t, 1, Len(t) - 1) ELSE t

MaxLines == 4

\* Scanner inputs: every recognizer's lines, an end marker naming another path,
\* blank and text lines.  The keys a and a/b cannot both be written (a would
\* be a file and a directory).
ScanPool ==
    {begin_marker(<<"a">>), end_marker(<<"b">>), fence_name(<<"a", SLASH, "b">>),
     inline_name(<<"b">>), bare_fence, blank_line, text_line("x")}

ScanTexts ==
    LET full == UNION {Texts(ScanPool, k) : k \in 0..MaxLines}
    IN  full \cup {Chop(t) : t \in full}

\* No transcript, or one transcript of at most MaxLines lines, with or without
\* its final newline.
ScanInputs == {<<>>} \cup {<<t>> : t \in ScanTexts}

LongLines == 5

\* Longer transcripts over fewer lines; the begin marker's path is blank.
LongPool ==
    {begin_marker(<<" ">>), fence_name(<<"a">>), inline_name(<<"b">>),
     bare_fence, blank_line, text_line("x")}

LongInputs == {<<>>} \cup {<<t>> : t \in UNION {Texts(LongPool, k) : k \in 0..LongLines}}

PathLines == 3

\* Path tokens: blank, rooted, with a parent segment written with a backslash,
\* a quoted drive path, a pair of quotes, a plain name.
PathPool ==
    {begin_marker(<<" ">>),
     fence_name(<<SLASH, "a">>),
     inline_name(<<"a">>),
     inline_name(<<".", ".", BS, "a">>),
     inline_name(<<QUOTE, "C", ":", BS, "a", QUOTE>>),
     inline_name(<<QUOTE, QUOTE>>),
     bare_fence,
     text_line("x")}

PathInputs == {<<>>} \cup {<<t>> : t \in UNION {Texts(PathPool, k) : k \in 0..PathLines}}

MaxTranscripts == 2

DrvPool ==
    {begin_marker(<<"a">>), fence_name(<<"a", SLASH, "b">>), inline_name(<<"b">>),
     bare_fence, text_line("x")}

\* Transcripts of one or two lines.
DrvTexts == DrvPool \cup {l1 \o l2 : l1 \in DrvPool, l2 \in DrvPool}

\* Up to MaxTranscripts transcripts, in sorted order of their names.
DrvInputs == UNION {[1..k -> DrvTexts] : k \in 0..MaxTranscripts}

InitWith(inputs) ==
    /\ convo_paths \in inputs
    /\ pc = "glob"
    /\ idx = 0
    /\ lines = <<>>
    /\ i = 0
    /\ files_map = <<>>
    /\ unknowns_counter = 0
    /\ emitted = <<>>
    /\ dirs = {}
    /\ disk = [l \in {} |-> <<>>]
    /\ written = <<>>
    /\ report = [exists |-> FALSE, entries |-> <<>>]
    /\ exit_code = -1
    /\ prev = NoRun

Init == InitWith(ScanInputs)
InitLong == InitWith(LongInputs)
InitPaths == InitWith(PathInputs)
InitDriver == InitWith(DrvInputs)

Spec == Init /\ [][Next]_vars
FairLines == 3

\* The scanner inputs of at most FairLines lines.
FairTexts ==
    LET full == UNION {Texts(ScanPool, k) : k \in 0..FairLines}
    IN  full \cup {Chop(t) : t \in full}
FairInputs == {<<>>} \cup {<<t>> : t \in FairTexts}
InitFair == InitWith(FairInputs)

\* One iteration of the scanner's loop, or its exit.
ScanStep ==
    ExplicitMarker \/ NamedFence \/ InlineName \/ EmbeddedName \/ Reject \/ EndOfTranscript

\* The interpreter always takes the program's next step; weak fairness of the
\* scanner's steps is the part of this that termination of the scan needs.
FairSpec == InitFair /\ [][Next]_vars /\ WF_vars(ScanStep)
SpecLong == InitLong /\ [][Next]_vars
SpecPaths == InitPaths /\ [][Next]_vars
SpecDriver == InitDriver /\ [][Next]_vars

\* Two runs in a row over the same transcripts.
NextTwice == Next \/ Rerun
SpecTwice == InitPaths /\ [][NextTwice]_vars


(***************************************************************************)
(* Properties.                                                             *)
(***************************************************************************)
Blocks == {emitted[k] : k \in 1..Len(emitted)}
LastBlock == emitted[Len(emitted)]
\* The lines of the transcript a block was captured from, and its span there.
LinesOf(b) == readlines(convo_paths[b.idx])
SpanOf(b) == [k \in 1..(b.to - b.from) |-> LinesOf(b)[b.from + k]]

\* C1: last-wins law.  For every path P for which a block was captured so far,
\* the Registry holds a record for P, and it is the record of the last block
\* captured for P: that block comes from the highest-index transcript that had a
\* block for P, and the record's index and content are that block's index and
\* the content captured from that transcript's lines.
C1_LastWins ==
    \A P \in {b.path : b \in Blocks} :
        LET K == {k \in 1..Len(emitted) : emitted[k].path = P}
            b == emitted[Max(K)]
        IN  /\ P \in Keys(files_map)
            /\ b.idx = Max({emitted[k].idx : k \in K})
            /\ Get(files_map, P).idx = b.idx
            /\ Get(files_map, P).content = b.content
            /\ rstrip_nl(b.content) = rstrip_nl(join(SpanOf(b)))

\* C1 witness: the run is over, a path was captured from transcript 1 and from
\* transcript 2 by different recognizers with different contents, and the
\* Registry holds the content captured from transcript 2.
C1_Witness ==
    /\ pc = "done"
    /\ \E b1 \in Blocks, b2 \in Blocks :
        /\ b1.path = b2.path /\ b1.idx = 1 /\ b2.idx = 2
        /\ b1.rec # b2.rec /\ b1.content # b2.content
        /\ Get(files_map, b1.path).idx = 2
        /\ Get(files_map, b1.path).content = b2.content

UnderOutputRoot(loc) ==
    IsPrefix(Resolve(OUTPUT_DIR), loc) /\ loc # Resolve(OUTPUT_DIR)

\* C2: every file written lies under the output root, also for registered
\* paths that contain '..' segments.
C2_WritesUnderRoot == \A loc \in DOMAIN disk : UnderOutputRoot(loc)

\* C3: in no reachable state does the Registry contain a record keyed by the
\* empty path.
C3_NoEmptyKey == <<>> \notin Keys(files_map)

EndsWithOneNewline(c) ==
    /\ Len(c) >= 1
    /\ c[Len(c)] = NL
    /\ Len(c) >= 2 => c[Len(c) - 1] # NL

\* C4: the content of every captured block, and of every Registry record,
\* ends with exactly one newline character, whatever number of newlines the
\* captured span ended with; an empty span yields a single newline.
C4_OneTrailingNewline ==
    /\ \A b \in Blocks :
        /\ EndsWithOneNewline(b.content)
        /\ b.from = b.to => b.content = <<NL>>
    /\ \A k \in 1..Len(files_map) : EndsWithOneNewline(files_map[k].content)

\* C4 witness: a block was captured from a span with text and two trailing
\* newlines, and its content has the text and one newline.
C4_Witness ==
    \E b \in Blocks :
        LET raw == join(SpanOf(b))
        IN  /\ Len(raw) >= 3 /\ raw[Len(raw)] = NL /\ raw[Len(raw) - 1] = NL
            /\ raw[1] # NL
            /\ Len(b.content) = Len(raw) - 1

\* lines[k] (0-based) of the transcript block b was captured from, and the
\* text of its lines a..b-1
LineOf(b, k) == LinesOf(b)[k + 1]
TextOf(b, from, to) == join([k \in 1..(to - from) |-> LineOf(b, from + k - 1)])
\* Equal up to the trailing newlines that C4 normalizes
SameText(c, raw) == rstrip_nl(c) = rstrip_nl(raw)

IsBeginA(l) == l = begin_marker(<<"a">>) \/ l = Chop(begin_marker(<<"a">>))
\* The end-marker lines of the scanner inputs all name path b.
IsEndB(l) == l = end_marker(<<"b">>) \/ l = Chop(end_marker(<<"b">>))
HasFence(l) == Len(l) >= 3 /\ l[1] = BT /\ l[2] = BT /\ l[3] = BT
AfterScan == pc \in {"makedirs", "write", "done"} /\ convo_paths # <<>>

\* C5: an explicit-marker block begun by a begin marker for path a is closed by
\* the first following end-marker line although it names path b: the content is
\* the lines before that line, the line is consumed, the block is registered
\* under a; and such a block is emitted.
C5_EndShapeCloses ==
    /\ \A k \in 1..Len(emitted) :
        LET b == emitted[k]
            E == {m \in (b.start + 1)..(Len(LinesOf(b)) - 1) : IsEndB(LineOf(b, m))}
        IN  (b.rec = "explicit" /\ IsBeginA(LineOf(b, b.start)) /\ E # {}) =>
                /\ b.path = <<"a">>
                /\ b.from = b.start + 1
                /\ b.to = Min(E)
                /\ b.stop = Min(E) + 1
                /\ SameText(b.content, TextOf(b, b.start + 1, Min(E)))
                /\ <<"a">> \in Keys(files_map)
                /\ (\A k2 \in (k + 1)..Len(emitted) : emitted[k2].path # <<"a">>)
                       => Get(files_map, <<"a">>).content = b.content
    /\ (AfterScan /\ lines # <<>> /\ IsBeginA(lines[1])) =>
           \E b \in Blocks : b.rec = "explicit" /\ b.start = 0 /\ b.idx = idx

\* C5 witness: a block for a with a non-empty body was closed by an end marker
\* naming b, and lines follow the end marker.
C5_Witness ==
    \E b \in Blocks :
        /\ b.rec = "explicit" /\ b.path = <<"a">> /\ b.from < b.to
        /\ b.to < Len(LinesOf(b)) - 1
        /\ IsEndB(LineOf(b, b.to))
        /\ b.stop = b.to + 1

\* The last header line of a fenced block: the opener, or the name= line below it.
HeaderEnd(b) == IF b.rec = "embedded" THEN b.start + 1 ELSE b.start

\* C6: the content of a named-fence or embedded-name block has no line that
\* starts with the fence delimiter; capture stops at the first such line after
\* the header, which is consumed and is not content; the name= line of an
\* embedded-name block is not content.
C6_NoFenceInContent ==
    \A b \in Blocks :
        b.rec \in {"fence", "embedded"} =>
            LET F == {m \in (HeaderEnd(b) + 1)..(Len(LinesOf(b)) - 1) : HasFence(LineOf(b, m))}
                cl == readlines(b.content)
            IN  /\ \A m \in 1..Len(cl) : ~HasFence(cl[m])
                /\ b.from = HeaderEnd(b) + 1
                /\ SameText(b.content, TextOf(b, b.from, b.to))
                /\ F # {} => b.to = Min(F) /\ b.stop = Min(F) + 1

\* C6 witness: an embedded-name block with a non-empty body, closed by a fence.
C6_Witness ==
    \E b \in Blocks :
        /\ b.rec = "embedded" /\ b.from < b.to
        /\ b.to < Len(LinesOf(b))
        /\ HasFence(LineOf(b, b.to))
        /\ b.content # <<NL>>

\* An inline-name block whose body is fenced: the line before the body is a
\* fence opener below the name= line.
InlineFenced(b) ==
    b.rec = "inline" /\ b.from >= b.start + 2 /\ HasFence(LineOf(b, b.from - 1))

\* No terminator of block b's kind from line k (0-based) to the end.
NoTerminatorFrom(b, k) ==
    \A m \in k..(Len(LinesOf(b)) - 1) :
        IF b.rec = "explicit" THEN ~IsEndB(LineOf(b, m)) ELSE ~HasFence(LineOf(b, m))

\* C7: a block with no terminator before the end of the transcript is emitted
\* and registered with all remaining lines as content, the cursor ends at the
\* end of the transcript, and no further block is emitted from that transcript.
C7_UnterminatedCaptured ==
    /\ \A k \in 1..Len(emitted) :
        LET b == emitted[k]
            N == Len(LinesOf(b))
        IN  ((b.rec \in {"explicit", "fence", "embedded"} \/ InlineFenced(b))
                 /\ NoTerminatorFrom(b, b.from)) =>
                /\ b.to = N
                /\ b.stop = N
                /\ SameText(b.content, TextOf(b, b.from, N))
                /\ \A k2 \in (k + 1)..Len(emitted) : emitted[k2].idx # b.idx
                /\ b.path \in Keys(files_map)
                /\ (\A k2 \in (k + 1)..Len(emitted) : emitted[k2].path # b.path)
                       => Get(files_map, b.path).content = b.content
                /\ (pc = "scan" /\ idx = b.idx) => i = N
    /\ (AfterScan /\ lines # <<>> /\ IsBeginA(lines[1])
            /\ \A m \in 2..Len(lines) : ~IsEndB(lines[m])) =>
           \E b \in Blocks :
               b.rec = "explicit" /\ b.start = 0 /\ b.idx = idx /\ b.to = Len(lines)

\* C7 witness: the run is over and an explicit-marker block with a non-empty
\* body ran to the end of the transcript without an end marker.
C7_Witness ==
    /\ pc = "done"
    /\ \E b \in Blocks :
        /\ b.rec = "explicit" /\ b.from < b.to
        /\ NoTerminatorFrom(b, b.from)
        /\ b.stop = Len(LinesOf(b))

\* C8: when no transcripts are found the run ends with a non-zero outcome and
\* nothing is processed: the Registry stays empty and no directory, output file
\* or report is created.
C8_NoTranscriptsFails ==
    convo_paths = <<>> =>
        /\ pc \in {"glob", "done"}
        /\ pc = "done" => exit_code = 1
        /\ files_map = <<>> /\ emitted = <<>> /\ written = <<>>
        /\ dirs = {} /\ DOMAIN disk = {}
        /\ ~report.exists

\* C8 witness: a run without transcripts has ended.
C8_Witness == convo_paths = <<>> /\ pc = "done"

\* A drive-style prefix: a drive letter and a colon.
HasDrivePrefix(p) == Len(p) >= 2 /\ p[1] \in {"C", "D"} /\ p[2] = ":"

\* C9: the path joined under the output root retains no leading path-root
\* marker: no leading slash and no leading drive-style prefix.
C9_NoRootMarker ==
    \A k \in 1..Len(written) :
        /\ ~(Len(written[k].path) >= 1 /\ written[k].path[1] \in {SLASH, BS})
        /\ ~HasDrivePrefix(written[k].path)

AllSpace(l) == \A k \in 1..Len(l) : IsSpace(l[k])
IsInlineB(l) == l = inline_name(<<"b">>)

\* C10: a name=<path> line followed by one or more blank lines and then a fence
\* opener yields a block for <path> whose content is the lines between the
\* opener and the next line starting with the fence delimiter: the blank lines,
\* the opener and the closing fence are not content, the closing fence is consumed.
C10_InlineBlankFence ==
    /\ \A b \in Blocks :
        LET N == Len(LinesOf(b))
            nb == {m \in (b.start + 1)..(N - 1) : ~AllSpace(LineOf(b, m))}
            j == Min(nb)
            F == {m \in (j + 1)..(N - 1) : HasFence(LineOf(b, m))}
        IN  (b.rec = "inline" /\ nb # {} /\ j > b.start + 1 /\ HasFence(LineOf(b, j))
                 /\ F # {}) =>
                /\ IsInlineB(LineOf(b, b.start)) => b.path = <<"b">>
                /\ b.from = j + 1
                /\ b.to = Min(F)
                /\ b.stop = Min(F) + 1
                /\ SameText(b.content, TextOf(b, j + 1, Min(F)))
    /\ (AfterScan /\ lines # <<>> /\ IsInlineB(lines[1])) =>
           \E b \in Blocks :
               b.rec = "inline" /\ b.start = 0 /\ b.idx = idx /\ b.path = <<"b">>

\* C10 witness: name=b, a blank line, a fence opener, a non-empty body and a
\* closing fence gave a block for b with that body.
C10_Witness ==
    \E b \in Blocks :
        /\ b.rec = "inline" /\ b.path = <<"b">>
        /\ b.from >= b.start + 3
        /\ AllSpace(LineOf(b, b.start + 1))
        /\ HasFence(LineOf(b, b.from - 1))
        /\ b.from < b.to
        /\ b.to < Len(LinesOf(b)) /\ HasFence(LineOf(b, b.to))
        /\ b.stop = b.to + 1
        /\ b.content = <<"x", NL>>


\* A line that starts with name= and has a name.
HasNamePrefix(l) ==
    /\ Len(l) >= 6
    /\ l[1] = "n" /\ l[2] = "a" /\ l[3] = "m" /\ l[4] = "e" /\ l[5] = "="
    /\ l[6] # NL
\* The lines of the scanner inputs that have no recognizer's start shape: text,
\* blank and end-marker lines.
PlainLine(l) ==
    \/ l \in {text_line("x"), Chop(text_line("x")), blank_line}
    \/ IsEndB(l)
\* A bare fence opener at line k that is the last line, or whose next line is
\* not a name= line.
LoneFence(k) ==
    /\ Line(k) \in {bare_fence, Chop(bare_fence)}
    /\ k + 1 = n \/ ~HasNamePrefix(Line(k + 1))

\* C11: total rejection is a no-op step.  At a line no recognizer accepts, also a
\* bare fence opener that is last or is not followed by a name= line, the step of
\* the scanner emits no block, leaves the Registry unchanged and moves the
\* cursor by exactly one line.
C11_RejectIsNoOp ==
    [][(pc = "scan" /\ i < n /\ (PlainLine(Line(i)) \/ LoneFence(i))) =>
          /\ i' = i + 1
          /\ files_map' = files_map
          /\ emitted' = emitted
          /\ pc' = "scan"
          /\ UNCHANGED <<lines, idx, disk, dirs, written, report>>]_vars

\* C11 witness: the scanner has passed a bare fence opener followed by a line
\* that is not a name= line; nothing was emitted.
C11_Witness ==
    /\ pc = "scan" /\ i = 1 /\ n >= 2
    /\ Line(0) = bare_fence
    /\ ~HasNamePrefix(Line(1))
    /\ emitted = <<>> /\ files_map = <<>>


\* C12: the driver is deterministic and idempotent.  A second run over the same
\* transcripts ends with the same Registry, the same output files with the same
\* content, and the same report lines in the same order (and the same outcome).
C12_SecondRunSame ==
    (prev.ran /\ pc = "done") =>
        /\ files_map = prev.files_map
        /\ disk = prev.disk
        /\ written = prev.written
        /\ report = prev.report
        /\ exit_code = prev.exit_code

\* C12 witness: a second run has finished, two files were written and reported.
C12_Witness ==
    /\ prev.ran /\ pc = "done"
    /\ report.exists /\ Len(report.entries) >= 2
    /\ Cardinality(DOMAIN disk) >= 2
    /\ exit_code = 0


\* The blocks captured for path P from the transcript being scanned.
BlocksHere(P) == {b \in Blocks : b.idx = idx /\ b.path = P}

\* C13: last match wins within one transcript.  When the scan of a transcript
\* is over, the Registry record of every path captured from it is the block for
\* that path whose start line comes last, with the transcript's index and the
\* content captured at that block's lines.
C13_LastMatchWins ==
    (pc = "scan" /\ i = n) =>
        \A P \in {b.path : b \in {c \in Blocks : c.idx = idx}} :
            LET last == CHOOSE b \in BlocksHere(P) :
                            \A c \in BlocksHere(P) : c.start <= b.start
            IN  /\ P \in Keys(files_map)
                /\ Get(files_map, P).idx = idx
                /\ Get(files_map, P).content = last.content
                /\ SameText(last.content, join(SpanOf(last)))

\* C13 witness: the scan is over, two blocks with different contents were
\* captured for one path, and the record holds the content of the later one.
C13_Witness ==
    /\ pc = "scan" /\ i = n
    /\ \E b1 \in Blocks, b2 \in Blocks :
        /\ b1.idx = idx /\ b2.idx = idx /\ b1.path = b2.path
        /\ b1.start < b2.start
        /\ b1.content # b2.content
        /\ Get(files_map, b1.path) = [path |-> b1.path, idx |-> idx, content |-> b2.content]


\* The named fence opener of the scanner inputs, and its path.
PathAB == <<"a", SLASH, "b">>
IsFenceAB(l) == l = fence_name(PathAB) \/ l = Chop(fence_name(PathAB))
\* Line k lies inside the span of a block that started before it.
Covered(t, k) == \E c \in Blocks : c.idx = t /\ c.start < k /\ k < c.stop

\* C14: the recognizers are tried in a fixed order and the first that accepts
\* emits the only block of that starting line.  No two blocks of a transcript
\* start at the same line; a block's recognizer is the first in the order that
\* the start line allows; a named fence opener followed by a name=b line gives
\* one block for the fence's path whose content begins with the name=b line,
\* and no block for b starts at that line; and such a block is emitted.
C14_FirstRecognizerWins ==
    /\ \A j \in 1..Len(emitted), k \in 1..Len(emitted) :
        (j # k /\ emitted[j].idx = emitted[k].idx) => emitted[j].start # emitted[k].start
    /\ \A b \in Blocks :
        /\ IsBeginA(LineOf(b, b.start)) => b.rec = "explicit"
        /\ IsFenceAB(LineOf(b, b.start)) =>
              /\ b.rec = "fence" /\ b.path = PathAB /\ b.from = b.start + 1
              /\ (b.start + 1 < Len(LinesOf(b)) /\ IsInlineB(LineOf(b, b.start + 1))) =>
                    /\ b.to > b.start + 1
                    /\ SubSeq(b.content, 1, Len(inline_name(<<"b">>))) = inline_name(<<"b">>)
                    /\ \A c \in Blocks : c.idx = b.idx => c.start # b.start + 1
        /\ b.rec = "embedded" => LineOf(b, b.start) \in {bare_fence, Chop(bare_fence)}
        /\ b.rec = "inline" => HasNamePrefix(LineOf(b, b.start))
    /\ (pc = "scan" /\ i = n) =>
        \A k \in 0..(n - 1) :
            (IsFenceAB(Line(k)) /\ ~Covered(idx, k)) =>
                \E b \in Blocks : b.idx = idx /\ b.start = k /\ b.rec = "fence"

\* C14 witness: the scan is over and a named fence opener followed by a name=b
\* line gave one block, for the fence's path, with the name=b line as content.
C14_Witness ==
    /\ pc = "scan" /\ i = n /\ n >= 2
    /\ IsFenceAB(Line(0)) /\ IsInlineB(Line(1))
    /\ Len(emitted) = 1
    /\ emitted[1].path = PathAB /\ emitted[1].rec = "fence"
    /\ Keys(files_map) = {PathAB}


\* C15: the scan of a transcript terminates.  The cursor stays within 0..n;
\* every iteration of the scanner, accepting or rejecting, stays in the scan of
\* the same lines and strictly increases the cursor; the scan is left only when
\* the cursor equals n, and at cursor n it is left by the next step; and every
\* scan that has begun is eventually over.
C15_ScanTerminates ==
    /\ [](pc = "scan" => i \in 0..n)
    /\ [][(pc = "scan" /\ i < n) => (pc' = "scan" /\ lines' = lines /\ i' > i)]_vars
    /\ [][(pc = "scan" /\ pc' # "scan") => i = n]_vars
    /\ [][(pc = "scan" /\ i = n) => pc' # "scan"]_vars
    /\ (pc = "scan") ~> (pc # "scan")

\* C15 witness: a scan of three or more lines is over; it began with a rejected
\* line and went on with a block that moved the cursor by two or more lines.
C15_Witness ==
    /\ pc = "makedirs" /\ i = n /\ n >= 3
    /\ emitted # <<>>
    /\ emitted[1].start >= 1
    /\ emitted[1].stop >= emitted[1].start + 2


\* The lines a block takes: its start line, content and consumed terminator
\* (with the lines between the start line and the content).
Footprint(b) == b.start..(b.stop - 1)
StartAndContent(b) == {b.start} \cup (b.from..(b.to - 1))

\* C16: the spans of the blocks of one transcript do not overlap.  No line taken
\* by a block is the start line or a content line of another block of the same
\* transcript; the content lies inside the block's own span; and a begin-marker
\* line in the content of an explicit-marker block starts no block.
C16_SpansDisjoint ==
    /\ \A j \in 1..Len(emitted), k \in 1..Len(emitted) :
        (j # k /\ emitted[j].idx = emitted[k].idx) =>
            Footprint(emitted[j]) \cap StartAndContent(emitted[k]) = {}
    /\ \A b \in Blocks :
        /\ b.start < b.from /\ b.from <= b.to /\ b.to <= b.stop
        /\ b.stop <= Len(LinesOf(b))
        /\ b.rec = "explicit" =>
              \A m \in b.from..(b.to - 1) :
                  IsBeginA(LineOf(b, m)) =>
                      \A c \in Blocks : c.idx = b.idx => c.start # m

\* C16 witness: the scan is over; an explicit-marker block has a begin-marker
\* line in its content, and it is the only block.
C16_Witness ==
    /\ pc = "scan" /\ i = n
    /\ Len(emitted) = 1
    /\ emitted[1].rec = "explicit"
    /\ \E m \in emitted[1].from..(emitted[1].to - 1) : IsBeginA(Line(m))
    /\ Len(files_map) = 1


\* The lines of the scanner inputs that end an unfenced body: a blank line, a
\* name= line, a begin marker.
EndsBody(l) == AllSpace(l) \/ HasNamePrefix(l) \/ IsBeginA(l)
\* The scanner has gone past line k of block b's transcript.
Passed(b, k) == b.idx < idx \/ pc # "scan" \/ i > k

\* C17: an inline-name block with an unfenced body ends at the first blank
\* line, name= line or begin-marker line (or at the end of the transcript).  That
\* line is not content and is not consumed.  Once the scanner has gone past it,
\* a name= line or begin marker there has started a block of its own, and a blank
\* line there has started none.
C17_PlainBodyStops ==
    \A b \in Blocks :
        (b.rec = "inline" /\ ~InlineFenced(b)) =>
            LET N == Len(LinesOf(b))
                T == {k \in b.from..(N - 1) : EndsBody(LineOf(b, k))}
            IN  /\ b.to = IF T = {} THEN N ELSE Min(T)
                /\ b.stop = b.to
                /\ SameText(b.content, TextOf(b, b.from, b.to))
                /\ (b.to < N /\ Passed(b, b.to)) =>
                      LET l == LineOf(b, b.to)
                          at == {c \in Blocks : c.idx = b.idx /\ c.start = b.to}
                      IN  /\ HasNamePrefix(l) => \E c \in at : c.rec = "inline"
                          /\ IsBeginA(l) => \E c \in at : c.rec = "explicit"
                          /\ AllSpace(l) => at = {}

\* C17 witness: the scan is over; an inline-name block with an unfenced body of
\* one text line was ended by a begin marker, which started the next block.
C17_Witness ==
    /\ pc = "scan" /\ i = n
    /\ Len(emitted) = 2
    /\ emitted[1].rec = "inline" /\ emitted[1].start = 0
    /\ emitted[1].from = 1 /\ emitted[1].to = 2
    /\ Line(1) = text_line("x") /\ IsBeginA(Line(2))
    /\ emitted[1].content = text_line("x")
    /\ emitted[2].rec = "explicit" /\ emitted[2].start = 2


\* The positions in the history of the first and the last block captured for P.
FirstAt(P) == Min({m \in 1..Len(emitted) : emitted[m].path = P})
LastAt(P) == Max({m \in 1..Len(emitted) : emitted[m].path = P})

\* C18: the report has exactly one entry per Registry record, in the order in
\* which the paths were first registered; an entry's index and size are those
\* of the last block captured for its path, whatever was registered in between.
C18_ReportOrder ==
    report.exists =>
        /\ Len(report.entries) = Len(files_map)
        /\ Cardinality(Keys(files_map)) = Len(files_map)
        /\ Keys(files_map) = {b.path : b \in Blocks}
        /\ \A k \in 1..Len(files_map) :
            LET P == files_map[k].path
                e == report.entries[k]
            IN  /\ e.path = lstrip(P, {SLASH, BS})
                /\ e.idx = files_map[k].idx
                /\ e.size = Len(files_map[k].content)
                /\ e.idx = emitted[LastAt(P)].idx
                /\ e.size = Len(emitted[LastAt(P)].content)
                /\ \A j \in 1..(k - 1) : FirstAt(files_map[j].path) < FirstAt(P)

\* C18 witness: the report has two entries; the path of the first was
\* registered by transcript 1, the path of the second was registered after it,
\* and then transcript 2 overwrote the first with content of another size.
C18_Witness ==
    /\ report.exists /\ Len(report.entries) = 2
    /\ LET P == files_map[1].path
           Q == files_map[2].path
       IN  /\ emitted[FirstAt(P)].idx = 1
           /\ FirstAt(P) < FirstAt(Q) /\ FirstAt(Q) < LastAt(P)
           /\ report.entries[1].idx = 2
           /\ report.entries[1].size # Len(emitted[FirstAt(P)].content)
           /\ report.entries[2].idx = 1


\* C19: distinct Registry records never materialize to the same output file.
\* Any two different registered paths differ after their leading separators are
\* stripped, and name different locations under the output root.
C19_DistinctOutputs ==
    \A j \in 1..Len(files_map), k \in 1..Len(files_map) :
        j # k =>
            /\ lstrip(files_map[j].path, {SLASH, BS}) # lstrip(files_map[k].path, {SLASH, BS})
            /\ Resolve(out_path(files_map[j].path)) # Resolve(out_path(files_map[k].path))

====
